---- MODULE Spec2Model ----
(***************************************************************************)
(* A model of the file-upload web application of src/main.py: the upload   *)
(* handler with its three stores (Blob Directory, Metadata Store, Catalog  *)
(* Store), the image listing, the file download and the log streaming,     *)
(* together with the rotating application log.                             *)
(*                                                                         *)
(* A filename is a sequence of characters; a character is a string that    *)
(* names it (one ASCII character, or "U+xxxx" for a non-ASCII one).        *)
(* A message (a log line, a flashed text) is the sequence of its parts.    *)
(***************************************************************************)
EXTENDS Integers, Sequences, FiniteSets, TLC

(***************************************************************************)
(* Bounds of the model.                                                    *)
(***************************************************************************)
\* number of requests a behaviour of Spec / SpecNames issues
MaxRequests == 2
\* longest generated part in front of a filename's fixed ending (SpecNames)
MaxPrefixLen == 3
\* RotatingFileHandler's maxBytes (10000 bytes in the source), counted here in
\* log lines of size 1: the scale of the log, not its logic
maxBytes == 3

(***************************************************************************)
(* Characters and strings.                                                 *)
(***************************************************************************)
LowerLetters ==
    << "a","b","c","d","e","f","g","h","i","j","k","l","m",
       "n","o","p","q","r","s","t","u","v","w","x","y","z" >>

UpperLetters ==
    << "A","B","C","D","E","F","G","H","I","J","K","L","M",
       "N","O","P","Q","R","S","T","U","V","W","X","Y","Z" >>

Digits == << "0","1","2","3","4","5","6","7","8","9" >>

Range(s) == { s[i] : i \in DOMAIN s }

\* two non-ASCII characters: one that NFKD decomposes to an ASCII letter plus a
\* combining mark (e with acute accent), one with no ASCII decomposition
EAcute == "U+00E9"
Kanji == "U+65E5"

\* str.lower() on one character
LowerChar(c) ==
    IF \E i \in DOMAIN UpperLetters : UpperLetters[i] = c
    THEN LowerLetters[CHOOSE i \in DOMAIN UpperLetters : UpperLetters[i] = c]
    ELSE c

\* str.lower()
Lower(s) == [ i \in DOMAIN s |-> LowerChar(s[i]) ]

RECURSIVE Concat(_)
\* the concatenation of a sequence of sequences
Concat(ss) == IF ss = << >> THEN << >> ELSE Head(ss) \o Concat(Tail(ss))

RECURSIVE LStrip(_, _)
\* str.lstrip(chars)
LStrip(s, chars) ==
    IF s # << >> /\ Head(s) \in chars THEN LStrip(Tail(s), chars) ELSE s

RECURSIVE RStrip(_, _)
\* str.rstrip(chars)
RStrip(s, chars) ==
    IF s # << >> /\ s[Len(s)] \in chars
    THEN RStrip(SubSeq(s, 1, Len(s) - 1), chars)
    ELSE s

\* str.strip(chars)
Strip(s, chars) == RStrip(LStrip(s, chars), chars)

\* the index of the last occurrence of c in s, 0 when there is none
LastIndex(s, c) ==
    IF \E i \in DOMAIN s : s[i] = c
    THEN CHOOSE i \in DOMAIN s : s[i] = c /\ \A j \in DOMAIN s : j > i => s[j] # c
    ELSE 0

(***************************************************************************)
(* allowed_file: the extension check on the raw uploaded filename.         *)
(***************************************************************************)
ALLOWED_EXTENSIONS ==
    { <<"t","x","t">>, <<"p","d","f">>, <<"p","n","g">>,
      <<"j","p","g">>, <<"j","p","e","g">>, <<"g","i","f">> }

\* filename.rsplit('.', 1)[1], for a filename that contains a '.'
RSplitExt(filename) ==
    SubSeq(filename, LastIndex(filename, ".") + 1, Len(filename))

\* a mutant of allowed_file: the membership test is dropped
allowed_file_any(filename) == "." \in Range(filename)

allowed_file(filename) ==
    /\ "." \in Range(filename)
    /\ Lower(RSplitExt(filename)) \in ALLOWED_EXTENSIONS

(***************************************************************************)
(* werkzeug.utils.secure_filename, as upload_file calls it on a POSIX      *)
(* host (os.sep = "/", no os.path.altsep, os.name # "nt").                 *)
(***************************************************************************)
\* unicodedata.normalize("NFKD", c).encode("ascii", "ignore").decode("ascii")
AsciiFold(c) ==
    IF c = EAcute THEN << "e" >>
    ELSE IF c = Kanji THEN << >>
    ELSE << c >>

\* the characters _filename_ascii_strip_re keeps: [A-Za-z0-9_.-]
SafeChars ==
    Range(LowerLetters) \cup Range(UpperLetters) \cup Range(Digits)
        \cup { "_", ".", "-" }

\* "_".join(s.split()): leading and trailing whitespace goes, every other run
\* of whitespace becomes one "_"
SplitJoin(s) ==
    LET t == Strip(s, { " " })
    IN  Concat([ i \in DOMAIN t |->
                   IF t[i] # " " THEN << t[i] >>
                   ELSE IF t[i - 1] = " " THEN << >>
                   ELSE << "_" >> ])

\* a mutant of secure_filename: the path separator is kept and nothing is
\* stripped from the ends
secure_filename_keepsep(filename) ==
    LET ascii == Concat([ i \in DOMAIN filename |-> AsciiFold(filename[i]) ])
    IN  SelectSeq(SplitJoin(ascii), LAMBDA c : c \in SafeChars \cup { "/" })

\* a mutant of secure_filename: the strip pattern also removes the dots
secure_filename_nodots(filename) ==
    LET ascii == Concat([ i \in DOMAIN filename |-> AsciiFold(filename[i]) ])
        nosep == [ i \in DOMAIN ascii |-> IF ascii[i] = "/" THEN " " ELSE ascii[i] ]
    IN  Strip(SelectSeq(SplitJoin(nosep), LAMBDA c : c \in SafeChars \ { "." }),
              { ".", "_" })

secure_filename(filename) ==
    LET ascii == Concat([ i \in DOMAIN filename |-> AsciiFold(filename[i]) ])
        nosep == [ i \in DOMAIN ascii |-> IF ascii[i] = "/" THEN " " ELSE ascii[i] ]
    IN  Strip(SelectSeq(SplitJoin(nosep), LAMBDA c : c \in SafeChars),
              { ".", "_" })

(***************************************************************************)
(* url_for('download_file', name=...): the route /uploads/<name> with the  *)
(* name percent-encoded, the characters of a sanitized name and "/" left   *)
(* as they are.                                                            *)
(***************************************************************************)
UrlQuoteChar(c) ==
    IF c \in SafeChars \cup { "/" } THEN << c >>
    ELSE IF c = " " THEN << "%", "2", "0" >>
    ELSE IF c = "\\" THEN << "%", "5", "C" >>
    ELSE IF c = EAcute THEN << "%", "C", "3", "%", "A", "9" >>
    ELSE IF c = Kanji THEN << "%", "E", "6", "%", "9", "7", "%", "A", "5" >>
    ELSE << "%", c >>

UploadsRoute == << "/", "u", "p", "l", "o", "a", "d", "s", "/" >>

url_for(name) ==
    UploadsRoute \o Concat([ i \in DOMAIN name |-> UrlQuoteChar(name[i]) ])

(***************************************************************************)
(* int(request.form.get('initial_stock_count')): a form value is a record  *)
(* [present, text]; an absent one is Python's None.                        *)
(***************************************************************************)
None == [ present |-> FALSE, text |-> << >> ]

Val(text) == [ present |-> TRUE, text |-> text ]

DigitValue(c) == (CHOOSE i \in DOMAIN Digits : Digits[i] = c) - 1

RECURSIVE DecimalValue(_)
DecimalValue(ds) ==
    IF ds = << >> THEN 0
    ELSE 10 * DecimalValue(SubSeq(ds, 1, Len(ds) - 1)) + DigitValue(ds[Len(ds)])

\* int(v): [ok |-> TRUE, value] or, when int raises (TypeError for None,
\* ValueError for a text that is no integer literal), [ok |-> FALSE]
ParseInt(v) ==
    LET t == Strip(v.text, { " " })
        signed == t # << >> /\ Head(t) \in { "+", "-" }
        ds == IF signed THEN Tail(t) ELSE t
    IN  IF v.present /\ ds # << >> /\ Range(ds) \subseteq Range(Digits)
        THEN [ ok |-> TRUE,
               value |-> IF signed /\ Head(t) = "-"
                         THEN 0 - DecimalValue(ds) ELSE DecimalValue(ds) ]
        ELSE [ ok |-> FALSE, value |-> 0 ]

(***************************************************************************)
(* State.                                                                  *)
(***************************************************************************)
VARIABLES
    ENV_MODE,   \* os.getenv("ENV_MODE"): "backend" or anything else
    blob,       \* Blob Directory: the names of the files in UPLOAD_FOLDER
    metadata,   \* Metadata Store: the "file-uploads" collection, in insertion order
    products,   \* Catalog Store: the committed rows of table products
    appLog,     \* the lines of app.log, the file the handler writes
    pc,         \* where each request's handler stands
    req,        \* each request as received
    loc,        \* each handler's local variables
    conns,      \* the store connections each request holds open
    handle,     \* each log stream's open file handle
    resp,       \* each request's response
    flashed,    \* the messages each request flashed
    logged,     \* history: the log records each request's handler wrote
    hist        \* history: what held when a request started

vars ==
    << ENV_MODE, blob, metadata, products, appLog, pc, req, loc, conns,
       handle, resp, flashed, logged, hist >>

Requests == 1 .. MaxRequests

stores == << blob, metadata, products >>

(***************************************************************************)
(* The rotating log: RotatingFileHandler(LOG_FILE, maxBytes, backupCount=1)*)
(* under logging's handler lock, so that one record is written at a time.  *)
(* Every line has size 1.  A rollover renames app.log to app.log.1 (which  *)
(* nothing in the program reads) and starts an empty app.log; a handle     *)
(* opened before the rollover keeps reading the renamed file.              *)
(***************************************************************************)
Info(msg) == [ level |-> "INFO", msg |-> msg ]

Error(msg) == [ level |-> "ERROR", msg |-> msg ]

LineSize(line) == 1

\* RotatingFileHandler.shouldRollover
shouldRollover(file, line) == Len(file) + LineSize(line) >= maxBytes

\* RotatingFileHandler.emit: rotate if due, then write the line
Emit(file, line) ==
    IF shouldRollover(file, line) THEN << line >> ELSE Append(file, line)

RECURSIVE EmitAll(_, _)
\* app.log after the records `lines` are emitted one after the other
EmitAll(file, lines) ==
    IF lines = << >> THEN file
    ELSE EmitAll(Emit(file, Head(lines)), Tail(lines))

RECURSIVE FirstRotated(_, _)
\* whether emitting `lines` rotates app.log, and the content of the file the
\* first rollover renames
FirstRotated(file, lines) ==
    IF lines = << >> THEN [ rolled |-> FALSE, content |-> << >> ]
    ELSE IF shouldRollover(file, Head(lines))
    THEN [ rolled |-> TRUE, content |-> file ]
    ELSE FirstRotated(Append(file, Head(lines)), Tail(lines))

NoHandle == [ open |-> FALSE, live |-> FALSE, frozen |-> << >>, pos |-> 0 ]

\* the content of the file an open handle reads
FileOf(h) == IF h.live THEN appLog ELSE h.frozen

\* logger.info / logger.error calls of request r's handler, in order
Log(r, lines) ==
    /\ appLog' = EmitAll(appLog, lines)
    /\ logged' = [ logged EXCEPT ![r] = @ \o lines ]
    /\ handle' =
         [ q \in Requests |->
             IF handle[q].open /\ handle[q].live /\ FirstRotated(appLog, lines).rolled
             THEN [ handle[q] EXCEPT !.live = FALSE,
                                    !.frozen = FirstRotated(appLog, lines).content ]
             ELSE handle[q] ]

(***************************************************************************)
(* Requests, locals and responses.                                         *)
(***************************************************************************)
NoReq ==
    [ op |-> "none", force_failure |-> None, has_file |-> FALSE,
      filename |-> << >>, product_name |-> "", initial_stock_count |-> None,
      name |-> << >> ]

\* e: the text of the exception the except clause caught, "" while none
NoLoc == [ filename |-> << >>, inserted_id |-> 0, stock_count |-> 0, e |-> "" ]

NoResp ==
    [ kind |-> "none", filename |-> << >>, img_url |-> << >>, data |-> << >>,
      lines |-> << >> ]

\* known: the uploads answered before a listing was received; lastAtStart: the
\* last line of app.log (if any) when a log stream was requested; logAtOpen:
\* app.log when the stream opened it
NoHist == [ known |-> { }, lastAtStart |-> << >>, logAtOpen |-> << >> ]

\* redirect(request.url): back to /upload-file
Redirect == [ NoResp EXCEPT !.kind = "redirect" ]

\* render_template('upload_image.html')
Form == [ NoResp EXCEPT !.kind = "form" ]

Init ==
    /\ ENV_MODE \in { "backend", "frontend" }
    /\ blob = { }
    /\ metadata = << >>
    /\ products = << >>
    /\ appLog = << >>
    /\ pc = [ r \in Requests |-> "idle" ]
    /\ req = [ r \in Requests |-> NoReq ]
    /\ loc = [ r \in Requests |-> NoLoc ]
    /\ conns = [ r \in Requests |-> { } ]
    /\ handle = [ r \in Requests |-> NoHandle ]
    /\ resp = [ r \in Requests |-> NoResp ]
    /\ flashed = [ r \in Requests |-> << >> ]
    /\ logged = [ r \in Requests |-> << >> ]
    /\ hist = [ r \in Requests |-> NoHist ]

\* the files whose upload has been answered with the structured response
Answered ==
    { resp[q].filename :
        q \in { q \in Requests : req[q].op = "upload_post" /\ resp[q].kind = "json" } }

\* a request arrives at a free worker; the history notes what a listing or a
\* log stream starts from
Receive(r, request) ==
    /\ pc[r] = "idle"
    /\ req' = [ req EXCEPT ![r] = request ]
    /\ hist' = [ hist EXCEPT ![r] =
                   [ known |-> IF request.op = "images" THEN Answered ELSE { },
                     lastAtStart |-> IF request.op = "logs" /\ appLog # << >>
                                     THEN << appLog[Len(appLog)] >> ELSE << >>,
                     logAtOpen |-> << >> ] ]

\* the response leaves and the handler returns
Respond(r, response) ==
    /\ pc' = [ pc EXCEPT ![r] = "done" ]
    /\ resp' = [ resp EXCEPT ![r] = response ]

\* GET /
hello_world(r) ==
    /\ Receive(r, [ NoReq EXCEPT !.op = "home" ])
    /\ Log(r, << Info(<< "Accessed the home page." >>) >>)
    /\ Respond(r, [ NoResp EXCEPT !.kind = "text" ])
    /\ UNCHANGED << ENV_MODE, stores, loc, conns, flashed >>

(***************************************************************************)
(* upload_file.                                                            *)
(***************************************************************************)
true == << "t", "r", "u", "e" >>

\* the multipart forms a client may post: the fields of the form and the
\* file part (has_file: 'file' in request.files)
UploadForms(filenames, forces, stocks) ==
    { f \in [ op : { "upload_post" }, force_failure : forces, has_file : BOOLEAN,
              filename : filenames, product_name : { "Widget" },
              initial_stock_count : stocks, name : { << >> } ] :
        ~ f.has_file => f.filename = << >> }

\* request.form.get('force_failure') == 'true'
Forced(f) == f.force_failure = Val(true)

\* app = Flask(__name__) with nothing but UPLOAD_FOLDER configured: the
\* application has no secret key, so it has no session to write to
secret_key_set == FALSE

\* what flash() raises without a session
SessionUnavailable == "The session is unavailable because no secret key was set."

\* the answer to an exception that leaves the view: Flask logs it and
\* responds 500
ServerError == [ NoResp EXCEPT !.kind = "server_error" ]

UnhandledLines(route) == << Error(<< "Exception on ", route >>) >>

\* the records the except clause logs
ExceptionLines(text) == << Error(<< "Failed: ", text >>) >>

\* the except clause of upload_file, entered with exception text `text` after
\* the handler has logged `before`: log, flash, redirect.  flash() stores the
\* message in the session; without a secret key it raises, out of the view.
Raise(r, before, text) ==
    /\ loc' = [ loc EXCEPT ![r].e = text ]
    /\ IF secret_key_set
       THEN /\ Log(r, before \o ExceptionLines(text))
            /\ flashed' = [ flashed EXCEPT ![r] = Append(@, << "An error occurred: ", text >>) ]
            /\ Respond(r, Redirect)
       ELSE /\ Log(r, before \o ExceptionLines(text) \o UnhandledLines("/upload-file [POST]"))
            /\ Respond(r, ServerError)
            /\ UNCHANGED flashed

\* a failed validation, after the handler has logged `before`: flash the
\* message and redirect.  The flash is inside the try block: when it raises,
\* the except clause takes over.
Reject(r, before, message) ==
    IF secret_key_set
    THEN /\ Log(r, before)
         /\ flashed' = [ flashed EXCEPT ![r] = Append(@, << message >>) ]
         /\ Respond(r, Redirect)
         /\ UNCHANGED loc
    ELSE Raise(r, before, SessionUnavailable)

\* GET /upload-file
upload_form(r) ==
    /\ Receive(r, [ NoReq EXCEPT !.op = "upload_get" ])
    /\ Log(r, << Info(<< "Accessed the upload file page." >>) >>)
    /\ Respond(r, Form)
    /\ UNCHANGED << ENV_MODE, stores, loc, conns, flashed >>

\* POST /upload-file up to the file's save: the forced failure and the
\* validation of the file part
upload_post(r, forms) ==
    /\ pc[r] = "idle"
    /\ \E f \in forms :
      LET entry == << Info(<< "Accessed the upload file page." >>),
                      Info(<< "Received a POST request to upload a file." >>) >>
      IN
      /\ Receive(r, f)
      /\ UNCHANGED << ENV_MODE, stores, conns >>
      /\ IF Forced(f)
         THEN Raise(r, entry, "Forced failure triggered.")
         ELSE IF ~ f.has_file
         THEN Reject(r, entry \o << Error(<< "Failed: No file part in the request." >>) >>,
                     "No file part")
         ELSE IF f.filename = << >>
         THEN Reject(r, entry \o << Error(<< "Failed: No file selected for upload." >>) >>,
                     "No selected file")
         ELSE IF allowed_file(f.filename)
         THEN /\ Log(r, entry)
              /\ loc' = [ loc EXCEPT ![r].filename = secure_filename(f.filename) ]
              /\ pc' = [ pc EXCEPT ![r] = "save" ]
              /\ UNCHANGED << resp, flashed >>
         ELSE \* no branch of the try block returns: the form is rendered
              /\ Log(r, entry)
              /\ Respond(r, Form)
              /\ UNCHANGED << loc, flashed >>

\* a mutant of Saved: the file is not written
Saved_nothing(dir, filename) == dir

\* the Blob Directory after file.save(os.path.join(UPLOAD_FOLDER, filename)):
\* a file of that name is created or overwritten
Saved(dir, filename) == dir \cup { filename }

\* file.save(file_path): the file is written, or the write raises with the
\* file created (a write that fails part way) or not (no such directory)
save_file(r) ==
    /\ pc[r] = "save"
    /\ \/ /\ blob' = Saved(blob, loc[r].filename)
          /\ pc' = [ pc EXCEPT ![r] = "mongo_connect" ]
          /\ UNCHANGED << appLog, handle, logged, loc, resp, flashed >>
       \/ /\ blob' \in { blob, Saved(blob, loc[r].filename) }
          /\ Raise(r, << >>, "file.save")
    /\ UNCHANGED << ENV_MODE, metadata, products, req, conns, hist >>

\* create_mongodb_connection("file-uploads"): a client is opened, or the
\* call raises
create_mongodb_connection(r) ==
    \/ conns' = [ conns EXCEPT ![r] = @ \cup { "mongodb" } ]
    \/ conns' = conns

\* lines 79: the Metadata Store connection of upload_file
mongo_connect(r) ==
    /\ pc[r] = "mongo_connect"
    /\ create_mongodb_connection(r)
    /\ IF "mongodb" \in conns'[r]
       THEN /\ pc' = [ pc EXCEPT ![r] = "mongo_insert" ]
            /\ UNCHANGED << appLog, handle, logged, loc, resp, flashed >>
       ELSE /\ Raise(r, << >>, "create_mongodb_connection")
    /\ UNCHANGED << ENV_MODE, stores, req, hist >>

\* collection.insert_one(doc): the store generates the document's _id
InsertOne(coll, doc) ==
    Append(coll, [ id |-> Len(coll) + 1, file_path |-> doc.file_path ])

\* result.inserted_id of the insert_one that made collection `coll`
InsertedId(coll) == Len(coll)

\* collection.insert_one({"file_path": filename}); client.close()
mongo_insert(r) ==
    /\ pc[r] = "mongo_insert"
    /\ \/ /\ metadata' = InsertOne(metadata, [ file_path |-> loc[r].filename ])
          /\ loc' = [ loc EXCEPT ![r].inserted_id = InsertedId(InsertOne(metadata, [ file_path |-> loc[r].filename ])) ]
          /\ conns' = [ conns EXCEPT ![r] = @ \ { "mongodb" } ]
          /\ pc' = [ pc EXCEPT ![r] = "pg_connect" ]
          /\ UNCHANGED << appLog, handle, logged, resp, flashed >>
       \/ /\ Raise(r, << >>, "insert_one")
          /\ UNCHANGED << metadata, conns >>
    /\ UNCHANGED << ENV_MODE, blob, products, req, hist >>

\* psycopg2.connect(...), conn.cursor(), and the values of the row:
\* int(request.form.get('initial_stock_count')) raises on what is no integer
pg_connect(r) ==
    /\ pc[r] = "pg_connect"
    /\ \/ /\ conns' = [ conns EXCEPT ![r] = @ \cup { "postgresql" } ]
          /\ IF ParseInt(req[r].initial_stock_count).ok
             THEN /\ loc' = [ loc EXCEPT ![r].stock_count = ParseInt(req[r].initial_stock_count).value ]
                  /\ pc' = [ pc EXCEPT ![r] = "pg_insert" ]
                  /\ UNCHANGED << appLog, handle, logged, resp, flashed >>
             ELSE /\ Raise(r, << >>, "int()")
       \/ /\ Raise(r, << >>, "psycopg2.connect")
          /\ UNCHANGED conns
    /\ UNCHANGED << ENV_MODE, stores, req, hist >>

\* the row upload_file inserts; str(result.inserted_id) is the id as text
ProductRow(r) ==
    [ name |-> req[r].product_name,
      image_mongodb_id |-> ToString(loc[r].inserted_id),
      stock_count |-> loc[r].stock_count,
      review |-> "Sample Review" ]

\* the response of a successful upload
Uploaded(r) ==
    [ NoResp EXCEPT !.kind = IF ENV_MODE = "backend" THEN "json" ELSE "html",
                    !.filename = loc[r].filename,
                    !.img_url = url_for(loc[r].filename) ]

\* cur.execute(INSERT ...); conn.commit(); cur.close(); conn.close(); the
\* success line and the response.  The row is in the table once the commit
\* succeeds; execute or commit raising leaves no row.
pg_insert(r) ==
    /\ pc[r] = "pg_insert"
    /\ \/ /\ products' = Append(products, ProductRow(r))
          /\ conns' = [ conns EXCEPT ![r] = @ \ { "postgresql" } ]
          /\ Log(r, << Info(<< "Success: File upload completed successfully." >>) >>)
          /\ Respond(r, Uploaded(r))
          /\ UNCHANGED << loc, flashed >>
       \/ /\ Raise(r, << >>, "execute/commit")
          /\ UNCHANGED << products, conns >>
    /\ UNCHANGED << ENV_MODE, blob, metadata, req, hist >>

(***************************************************************************)
(* show_uploaded_images.  An exception here is not caught by the view:     *)
(* Flask logs it and answers 500.                                          *)
(***************************************************************************)
\* list(collection.find({}))
FindAll(coll) == coll

\* a mutant of Parsed: the stored paths are listed as they are
Parsed_paths(data) == [ i \in DOMAIN data |-> data[i].file_path ]

\* [{"image_url": url_for('download_file', name=d['file_path'])} for d in data]
Parsed(data) == [ i \in DOMAIN data |-> url_for(data[i].file_path) ]

\* GET /images up to the connection to the Metadata Store
list_start(r) ==
    /\ Receive(r, [ NoReq EXCEPT !.op = "images" ])
    /\ create_mongodb_connection(r)
    /\ IF "mongodb" \in conns'[r]
       THEN /\ Log(r, << Info(<< "Accessed the images page." >>) >>)
            /\ pc' = [ pc EXCEPT ![r] = "find" ]
            /\ UNCHANGED resp
       ELSE /\ Log(r, << Info(<< "Accessed the images page." >>),
                         Error(<< "Exception on ", "/images [GET]" >>) >>)
            /\ Respond(r, ServerError)
    /\ UNCHANGED << ENV_MODE, stores, loc, flashed >>

\* the query and the response; the client is not closed
list_find(r) ==
    /\ pc[r] = "find"
    /\ \/ /\ Log(r, << Info(<< "Fetched ", ToString(Len(FindAll(metadata))),
                              " images from MongoDB." >>) >>)
          /\ Respond(r, [ NoResp EXCEPT
                            !.kind = IF ENV_MODE = "backend" THEN "json" ELSE "html",
                            !.data = Parsed(FindAll(metadata)) ])
       \/ /\ Log(r, << Error(<< "Exception on ", "/images [GET]" >>) >>)
          /\ Respond(r, ServerError)
    /\ UNCHANGED << ENV_MODE, stores, req, loc, conns, flashed, hist >>

(***************************************************************************)
(* download_file: send_from_directory answers with the file or not found.  *)
(***************************************************************************)
download_file(r, names) ==
    /\ pc[r] = "idle"
    /\ \E name \in names :
      /\ Receive(r, [ NoReq EXCEPT !.op = "download", !.name = name ])
      /\ Log(r, << Info(<< "File " >> \o name \o << " requested for download." >>) >>)
      /\ Respond(r, [ NoResp EXCEPT !.kind = IF name \in blob THEN "file" ELSE "not_found",
                                    !.filename = name ])
      /\ UNCHANGED << ENV_MODE, stores, loc, conns, flashed >>

(***************************************************************************)
(* watch_logs: the view returns a Response over the generator; the server  *)
(* then runs the generator, which opens app.log and reads it line by line. *)
(***************************************************************************)
\* the view function: nothing is opened yet
stream_start(r) ==
    /\ Receive(r, [ NoReq EXCEPT !.op = "logs" ])
    /\ resp' = [ resp EXCEPT ![r] = [ NoResp EXCEPT !.kind = "stream" ] ]
    /\ pc' = [ pc EXCEPT ![r] = "stream_open" ]
    /\ UNCHANGED << ENV_MODE, stores, appLog, loc, conns, handle, flashed, logged >>

\* open(LOG_FILE, "r")
stream_open(r) ==
    /\ pc[r] = "stream_open"
    /\ handle' = [ handle EXCEPT ![r] = [ NoHandle EXCEPT !.open = TRUE, !.live = TRUE ] ]
    /\ hist' = [ hist EXCEPT ![r].logAtOpen = appLog ]
    /\ pc' = [ pc EXCEPT ![r] = "stream_read" ]
    /\ UNCHANGED << ENV_MODE, stores, appLog, req, loc, conns, resp, flashed, logged >>

\* a mutant of stream_read: at the end of the file the loop waits for more
stream_read_follow(r) ==
    /\ pc[r] = "stream_read"
    /\ handle[r].pos < Len(FileOf(handle[r]))
    /\ resp' = [ resp EXCEPT ![r].lines = Append(@, FileOf(handle[r])[handle[r].pos + 1]) ]
    /\ handle' = [ handle EXCEPT ![r].pos = @ + 1 ]
    /\ UNCHANGED << ENV_MODE, stores, appLog, pc, req, loc, conns, flashed, logged, hist >>

\* one turn of the loop: f.readline(), then yield the line or break (and
\* leave the with block, which closes the file)
stream_read(r) ==
    /\ pc[r] = "stream_read"
    /\ IF handle[r].pos < Len(FileOf(handle[r]))
       THEN /\ resp' = [ resp EXCEPT ![r].lines = Append(@, FileOf(handle[r])[handle[r].pos + 1]) ]
            /\ handle' = [ handle EXCEPT ![r].pos = @ + 1 ]
            /\ UNCHANGED pc
       ELSE /\ handle' = [ handle EXCEPT ![r] = NoHandle ]
            /\ pc' = [ pc EXCEPT ![r] = "done" ]
            /\ UNCHANGED resp
    /\ UNCHANGED << ENV_MODE, stores, appLog, req, loc, conns, flashed, logged, hist >>

\* the worker that served a request takes the next one
next_request(r) ==
    /\ pc[r] = "done"
    /\ pc' = [ pc EXCEPT ![r] = "idle" ]
    /\ req' = [ req EXCEPT ![r] = NoReq ]
    /\ loc' = [ loc EXCEPT ![r] = NoLoc ]
    /\ conns' = [ conns EXCEPT ![r] = { } ]
    /\ resp' = [ resp EXCEPT ![r] = NoResp ]
    /\ flashed' = [ flashed EXCEPT ![r] = << >> ]
    /\ logged' = [ logged EXCEPT ![r] = << >> ]
    /\ hist' = [ hist EXCEPT ![r] = NoHist ]
    /\ UNCHANGED << ENV_MODE, stores, appLog, handle >>

(***************************************************************************)
(* Specifications.                                                         *)
(***************************************************************************)
photo_png == << "p", "h", "o", "t", "o", ".", "p", "n", "g" >>

malware_exe == << "m", "a", "l", "w", "a", "r", "e", ".", "e", "x", "e" >>

missing_png == << "n", "o", ".", "p", "n", "g" >>

\* the forms of Spec: a few of each kind
SampleForms ==
    UploadForms({ photo_png, malware_exe },
                { None, Val(true) },
                { Val(<< "5" >>), Val(<< "a", "b", "c" >>) })

SampleDownloads == { photo_png, missing_png }

\* MaxRequests requests, each of any route that writes to a store, to a
\* connection or to the log, interleaved in any way (a log stream writes to
\* none of them: SpecLogs)
Next ==
    \E r \in Requests :
        \/ hello_world(r)
        \/ upload_form(r)
        \/ upload_post(r, SampleForms)
        \/ save_file(r)
        \/ mongo_connect(r)
        \/ mongo_insert(r)
        \/ pg_connect(r)
        \/ pg_insert(r)
        \/ list_start(r)
        \/ list_find(r)
        \/ download_file(r, SampleDownloads)

Spec == Init /\ [][Next]_vars

(***************************************************************************)
(* One upload, over a wide set of forms: filenames made of a generated     *)
(* prefix and a fixed ending.                                              *)
(***************************************************************************)
PrefixChars == { "a", ".", "/", "_", " ", "\\", EAcute }

Prefixes == UNION { [ 1 .. n -> PrefixChars ] : n \in 0 .. MaxPrefixLen }

Endings ==
    { << >>,
      << ".", "p", "n", "g" >>,
      << ".", "P", "n", "G" >>,
      << ".", "j", "p", "e", "g" >>,
      << ".", "e", "x", "e" >>,
      << "p", "n", "g" >>,
      << "x", ".", "t", "x", "t" >>,
      << ".", "p", "d", "f" >>,
      << ".", "j", "p", "g" >>,
      << ".", "g", "i", "f" >>,
      malware_exe,
      << ".", ".", "/", "e", "t", "c", "/", "p", "a", "s", "s", "w", "d" >> }

WideFilenames == { pre \o suf : pre \in Prefixes, suf \in Endings }

WideForms ==
    UploadForms(WideFilenames,
                { None, Val(true) },
                { Val(<< "5" >>), Val(<< "a", "b", "c" >>) })

NextForms ==
    \/ upload_post(1, WideForms)
    \/ save_file(1)
    \/ mongo_connect(1)
    \/ mongo_insert(1)
    \/ pg_connect(1)
    \/ pg_insert(1)

SpecForms == Init /\ [][NextForms]_vars

(***************************************************************************)
(* The log under load: workers that serve request after request, each      *)
(* writing to the log, and the log streams of one of them.  A stream reads *)
(* and writes nothing another stream sees, so streams on one worker stand  *)
(* for streams on any.  A generator that has been started keeps running:   *)
(* its steps are weakly fair.                                              *)
(***************************************************************************)
NextLogs ==
    \/ \E r \in Requests :
          \/ hello_world(r)
          \/ upload_form(r)
          \/ next_request(r)
    \/ stream_start(1)
    \/ stream_open(1)
    \/ stream_read(1)

SpecLogs ==
    /\ Init
    /\ [][NextLogs]_vars
    /\ WF_vars(stream_open(1))
    /\ WF_vars(stream_read(1))

(***************************************************************************)
(* Vocabulary of the properties, stated on their own terms.                *)
(***************************************************************************)
\* the name contains a '.', and what follows its last '.' is, lower-cased, one
\* of txt, pdf, png, jpg, jpeg, gif
HasAllowedExtension(name) ==
    \E k \in DOMAIN name :
        /\ name[k] = "."
        /\ \A j \in DOMAIN name : j > k => name[j] # "."
        /\ \E ext \in ALLOWED_EXTENSIONS :
              /\ Len(ext) = Len(name) - k
              /\ \A i \in DOMAIN ext : LowerChar(name[k + i]) = ext[i]

\* the form asks for the forced failure
ForceSet(f) == f.force_failure.present /\ f.force_failure.text = << "t", "r", "u", "e" >>

\* the form fails one of the three validations
FailsValidation(f) ==
    \/ ~ f.has_file
    \/ f.filename = << >>
    \/ ~ HasAllowedExtension(f.filename)

\* the text is an integer literal as int() reads one: digits, with at most
\* one sign right in front of them and blanks around
IntegerLiteral(v) ==
    /\ v.present
    /\ \E a \in DOMAIN v.text : \E b \in DOMAIN v.text :
          /\ a <= b
          /\ \A j \in DOMAIN v.text :
                \/ j >= a /\ j <= b /\ v.text[j] \in Range(Digits)
                \/ j > b /\ v.text[j] = " "
                \/ j < a - 1 /\ v.text[j] = " "
                \/ j = a - 1 /\ v.text[j] \in { " ", "+", "-" }

\* request r is an upload that passed the forced-failure check and validation
Accepted(r) ==
    /\ req[r].op = "upload_post"
    /\ ~ ForceSet(req[r])
    /\ ~ FailsValidation(req[r])

\* the steps of an accepted upload, in order, and how far request r has come
AfterSave == { "mongo_connect", "mongo_insert", "pg_connect", "pg_insert" }

AfterInsert == { "pg_connect", "pg_insert" }

RaisedAfterSave ==
    { "create_mongodb_connection", "insert_one", "psycopg2.connect", "int()",
      "execute/commit" }

RaisedAfterInsert == { "psycopg2.connect", "int()", "execute/commit" }

Succeeded(r) == req[r].op = "upload_post" /\ resp[r].kind \in { "json", "html" }

FileWritten(r) ==
    pc[r] \in AfterSave \/ loc[r].e \in RaisedAfterSave \/ Succeeded(r)

RecordInserted(r) ==
    pc[r] \in AfterInsert \/ loc[r].e \in RaisedAfterInsert \/ Succeeded(r)

\* a name that stays inside the directory it is joined to: not empty, no path
\* separator, and not a "." or ".." component
InsideDirectory(name) ==
    /\ name # << >>
    /\ "/" \notin Range(name)
    /\ "\\" \notin Range(name)
    /\ name \notin { << "." >>, << ".", "." >> }

IsPrefix(s, t) == Len(s) <= Len(t) /\ SubSeq(t, 1, Len(s)) = s

StoredNames == blob \cup { metadata[j].file_path : j \in DOMAIN metadata }

(***************************************************************************)
(* C1.  Every Product row refers, by its image id, to a FileMetadataRecord *)
(* that exists, and the file that record names is in the Blob Directory.   *)
(***************************************************************************)
C1_ProductHasRecordAndFile ==
    \A i \in DOMAIN products :
        \E j \in DOMAIN metadata :
            /\ ToString(metadata[j].id) = products[i].image_mongodb_id
            /\ metadata[j].file_path \in blob

\* two uploads have each left a row
C1_Witness == Len(products) = 2 /\ \A r \in { 1, 2 } : Succeeded(r)

(***************************************************************************)
(* C2.  A POST with force_failure=true is answered, in the step that       *)
(* receives it, with a flashed message and the redirect to the form,       *)
(* whatever the other fields are, and changes none of the three stores.    *)
(***************************************************************************)
C2_ForcedFailureWritesNothing ==
    [][ \A r \in Requests :
          (pc[r] = "idle" /\ req'[r].op = "upload_post" /\ ForceSet(req'[r]))
          => /\ pc'[r] = "done"
             /\ resp'[r].kind = "redirect"
             /\ Len(flashed'[r]) = 1
             /\ UNCHANGED stores ]_vars

\* C2, the part on the stores alone: the step that receives a POST with
\* force_failure=true ends the request and changes none of the three stores
C2_ForcedFailureStoresUntouched ==
    [][ \A r \in Requests :
          (pc[r] = "idle" /\ req'[r].op = "upload_post" /\ ForceSet(req'[r]))
          => pc'[r] = "done" /\ UNCHANGED stores ]_vars

(***************************************************************************)
(* C3.  A POST that fails validation (no file part, empty filename, or an  *)
(* extension outside the allowed ones) ends in the step that receives it,  *)
(* without the success response, and changes none of the three stores.     *)
(***************************************************************************)
C3_InvalidUploadWritesNothing ==
    [][ \A r \in Requests :
          (/\ pc[r] = "idle"
           /\ req'[r].op = "upload_post"
           /\ ~ ForceSet(req'[r])
           /\ FailsValidation(req'[r]))
          => /\ pc'[r] = "done"
             /\ resp'[r].kind \notin { "json", "html" }
             /\ UNCHANGED stores ]_vars

\* an upload named malware.exe has been turned down
C3_Witness ==
    \E r \in Requests :
        /\ req[r].op = "upload_post"
        /\ ~ ForceSet(req[r])
        /\ req[r].has_file
        /\ req[r].filename = malware_exe
        /\ pc[r] = "done"
        /\ blob = { }

(***************************************************************************)
(* C4.  Each of the three validation errors is answered with a flashed     *)
(* message and the redirect to the form.                                   *)
(***************************************************************************)
C4_ValidationErrorsRedirectWithMessage ==
    \A r \in Requests :
        (/\ req[r].op = "upload_post"
         /\ ~ ForceSet(req[r])
         /\ FailsValidation(req[r])
         /\ pc[r] = "done")
        => resp[r].kind = "redirect" /\ flashed[r] # << >>

(***************************************************************************)
(* C5.  An accepted upload one of whose steps raised has been answered     *)
(* with one flashed message and the redirect, has logged one error line,   *)
(* has left no Product row, and what its earlier steps wrote is still      *)
(* there: the file once the save was done, the FileMetadataRecord once the *)
(* insert was done.  A stock count that is no integer raises after the     *)
(* record's insert, so such an upload never reaches the row's insert.      *)
(***************************************************************************)
C5_ExceptionKeepsEarlierWrites ==
    \A r \in Requests :
        /\ (Accepted(r) /\ loc[r].e # "")
           => /\ pc[r] = "done"
              /\ resp[r].kind = "redirect"
              /\ Len(flashed[r]) = 1
              /\ flashed[r][1] = << "An error occurred: ", loc[r].e >>
              /\ Cardinality({ i \in DOMAIN logged[r] : logged[r][i].level = "ERROR" }) = 1
              /\ \A i \in DOMAIN products :
                    products[i].image_mongodb_id # ToString(loc[r].inserted_id)
              /\ loc[r].e \in RaisedAfterSave => loc[r].filename \in blob
              /\ loc[r].e \in RaisedAfterInsert
                   => \E j \in DOMAIN metadata :
                         metadata[j] = [ id |-> loc[r].inserted_id,
                                         file_path |-> loc[r].filename ]
        /\ (Accepted(r) /\ ~ IntegerLiteral(req[r].initial_stock_count))
           => /\ pc[r] # "pg_insert"
              /\ ~ Succeeded(r)
              /\ (pc[r] = "done" /\ loc[r].inserted_id # 0 /\ loc[r].e # "psycopg2.connect")
                   => loc[r].e = "int()"

\* C5, the part on the stores alone: an accepted upload one of whose steps
\* raised is over, has left no Product row, and what its earlier steps wrote
\* is still there
C5_NoRowNoRollback ==
    \A r \in Requests :
        (Accepted(r) /\ loc[r].e # "")
        => /\ pc[r] = "done"
           /\ \A i \in DOMAIN products :
                 products[i].image_mongodb_id # ToString(loc[r].inserted_id)
           /\ loc[r].e \in RaisedAfterSave => loc[r].filename \in blob
           /\ loc[r].e \in RaisedAfterInsert
                => \E j \in DOMAIN metadata :
                      metadata[j] = [ id |-> loc[r].inserted_id,
                                      file_path |-> loc[r].filename ]

C7_StreamEndsWithOpenedFile ==
    /\ [](\A r \in Requests :
            /\ pc[r] = "stream_read"
               => resp[r].lines = SubSeq(FileOf(handle[r]), 1, handle[r].pos)
            /\ (req[r].op = "logs" /\ pc[r] = "done")
               => IsPrefix(hist[r].logAtOpen, resp[r].lines))
    /\ [][ \A r \in Requests :
             (pc[r] = "stream_read" /\ pc'[r] = "done")
             => resp'[r].lines = FileOf(handle[r]) ]_vars
    /\ \A r \in Requests :
          (pc[r] \in { "stream_open", "stream_read" }) ~> (pc[r] = "done")

\* a stream has ended that emitted more than the file held when it was opened
C7_Witness ==
    \E r \in Requests :
        /\ req[r].op = "logs"
        /\ pc[r] = "done"
        /\ hist[r].logAtOpen # << >>
        /\ Len(resp[r].lines) > Len(hist[r].logAtOpen)

(***************************************************************************)
(* C7, as stated, for the line the claim is surest of: a stream that has   *)
(* ended holds the last line written before its request started.          *)
(***************************************************************************)
C7_EarlierLineStreamed ==
    \A r \in Requests :
        (req[r].op = "logs" /\ pc[r] = "done")
        => \A i \in DOMAIN hist[r].lastAtStart :
              \E j \in DOMAIN resp[r].lines :
                  resp[r].lines[j] = hist[r].lastAtStart[i]

(***************************************************************************)
(* C8.  When a request has been answered, no store connection it opened is *)
(* still open.                                                             *)
(***************************************************************************)
C8_ConnectionsClosedAtResponse ==
    \A r \in Requests : pc[r] = "done" => conns[r] = { }

(***************************************************************************)
(* C9.  For an accepted upload, one name is used to write the file, in the *)
(* FileMetadataRecord and in the download URL.  It is not empty, holds no  *)
(* path separator and is not a ".." component, so the file lies directly   *)
(* in the Blob Directory, whatever the uploaded filename holds.            *)
(***************************************************************************)
C9_SanitizedNameEverywhere ==
    /\ \A name \in StoredNames : InsideDirectory(name)
    /\ \A r \in Requests :
          Accepted(r)
          => /\ InsideDirectory(loc[r].filename)
             /\ FileWritten(r) => loc[r].filename \in blob
             /\ RecordInserted(r)
                  => /\ loc[r].inserted_id \in DOMAIN metadata
                     /\ metadata[loc[r].inserted_id].file_path = loc[r].filename
             /\ Succeeded(r)
                  => /\ resp[r].filename = loc[r].filename
                     /\ resp[r].img_url =
                           << "/", "u", "p", "l", "o", "a", "d", "s", "/" >> \o loc[r].filename

\* an upload whose filename climbs out of the directory has succeeded
C9_Witness ==
    \E r \in Requests :
        /\ Succeeded(r)
        /\ SubSeq(req[r].filename, 1, 3) = << ".", ".", "/" >>
        /\ blob # { }

(***************************************************************************)
(* C10, as stated.  Every name of a file in the Blob Directory and every   *)
(* file_path of a FileMetadataRecord passes the extension check.           *)
(***************************************************************************)
C10_StoredNamesPassCheck ==
    \A name \in StoredNames : HasAllowedExtension(name)

(***************************************************************************)
(* C10, as amended.  Every stored name passes the extension check or is,   *)
(* lower-cased, one of the allowed extensions with nothing in front of it  *)
(* (the sanitizer has stripped all that stood before the last '.').        *)
(***************************************************************************)
C10_StoredNamesEndInAllowedExtension ==
    \A name \in StoredNames :
        \/ HasAllowedExtension(name)
        \/ Lower(name) \in ALLOWED_EXTENSIONS

\* the upload named .png is stored under the name png
C10_Witness ==
    \E r \in Requests :
        /\ req[r].filename = << ".", "p", "n", "g" >>
        /\ << "p", "n", "g" >> \in blob
        /\ \E j \in DOMAIN metadata : metadata[j].file_path = << "p", "n", "g" >>

====
